---- MODULE Spec2Model ----
(***************************************************************************)
(* Model of the scheduling core in src/engine/GameCore.js: the fixed-step  *)
(* accumulator loop (gameLoop), the categorised component registry         *)
(* (updateComponents, addNewGameObject), the game-object buckets and the   *)
(* menu stack (addMenu, removeMenu, renderGraphics).                       *)
(*                                                                         *)
(* The GameCore instance is handled as a record `g` by the operators that  *)
(* model its methods; every action copies the fields of the resulting      *)
(* record into the variables.  Component code (update, addComponent) is    *)
(* outside the repository files modelled here: an update is an input that  *)
(* returns true, returns false or throws, and it does not call back into   *)
(* the engine.  The wall clock is monotonic (elapsed >= 0).                *)
(***************************************************************************)
EXTENDS Integers, Sequences, FiniteSets, TLC

VARIABLES
    speed,          \* this.speed
    previous,       \* this.previous (Null before startGameLoop)
    lag,            \* this.lag
    components,     \* this.components: list name -> sequence of components
    gameObjects,    \* this.gameObjects: bucket name -> sequence of entities
    openMenus,      \* this.openMenus
    reRenderMenus,  \* this.reRenderMenus
    debug,          \* this.config.debug (truthy or not)
    options,        \* the options the constructor was given, kept in config
    phase,          \* position of the startup sequence / of the loop
    pending,        \* startup loads whose callback has not run yet
    submitted,      \* entities already handed to addNewGameObject
    failure,        \* the rejection of a startup promise and who received it
    \* observations of the most recent handler
    op,             \* name of the last operation
    arg,            \* the menu component or entity it was called with
    raised,         \* TRUE iff the last operation ended by an exception
    elapsed,        \* elapsed computed by the last gameLoop invocation
    lagBefore,      \* this.lag when the last gameLoop invocation started
    passes,         \* update passes started by the last operation
    calls,          \* component.update calls made by the last operation
    pushed,         \* components pushed on a category list so far, in order
    attached,       \* addComponent calls made so far, in order, each with
                    \* whether the component was on its list at that time
    projected       \* number of ReactDOM.render calls of the last operation

vars == <<speed, previous, lag, components, gameObjects, openMenus,
          reRenderMenus, debug, options, failure, phase, pending, submitted, op, raised,
          arg, elapsed, lagBefore, passes, calls, pushed, attached, projected>>

(***************************************************************************)
(* Program constants                                                       *)
(***************************************************************************)
SLOW == 5000
NORMAL == 2000
FAST == 1000

Null == -1

gameComponentTypes == <<"physicsComponents", "informationComponents">>

renderComponentTypes == <<"renderComponents", "menuComponents">>

gameObjectTypes == <<"citys", "merchants">>

(***************************************************************************)
(* Bounds of the model                                                     *)
(***************************************************************************)
MaxTime == 6000
MaxMenus == 2
\* iterations of the catch-up loop one frame is followed for
MaxPasses == 3

\* elapsed times a frame can observe (ms): no tick, one tick with the
\* earlier lag, two ticks
Elapsed == {0, 1500, 4500}

\* elapsed times of the frames of the registry specification: a frame that
\* only renders, a frame that also runs a simulation pass
CoarseElapsed == {0, 3000}

\* timestamp read by startGameLoop, taken as the origin of the clock
StartTime == 0

\* overlay components handed to addMenu / removeMenu
Menus == {"MenuA", "MenuB"}

\* results of one component.update call
Outcomes == {"true", "false", "throw"}

(***************************************************************************)
(* Entities the factory can hand to addNewGameObject.  `components` lists  *)
(* the (field name, component) pairs in Object.keys order; a component is  *)
(* identified by a number; objectType "undefined" is an unset type.        *)
(***************************************************************************)
Entities ==
    [ map      |-> [objectType |-> "undefined",
                    components |-> << <<"physicsComponent", 1>>,
                                      <<"renderComponent", 2>> >>],
      city     |-> [objectType |-> "city",
                    components |-> << <<"physicsComponent", 3>>,
                                      <<"menuComponent", 4>> >>],
      merchant |-> [objectType |-> "merchant",
                    components |-> << <<"physicsComponent", 5>>,
                                      <<"informationComponent", 6>> >>],
      band     |-> [objectType |-> "army",
                    components |-> << <<"informationComponent", 7>>,
                                      <<"soundComponent", 8>> >>] ]

EntityNames == DOMAIN Entities

(***************************************************************************)
(* JavaScript array primitives                                             *)
(***************************************************************************)
Max(a, b) == IF a >= b THEN a ELSE b

Min(a, b) == IF a <= b THEN a ELSE b

\* Array.prototype.indexOf: 0-based index of the first match, -1 if none
indexOf(list, x) ==
    IF \E i \in 1..Len(list) : list[i] = x
    THEN (CHOOSE i \in 1..Len(list) :
              list[i] = x /\ \A j \in 1..(i - 1) : list[j] # x) - 1
    ELSE -1

\* Array.prototype.splice(start, deleteCount) without inserted items:
\* a negative start counts from the end of the array
splice(list, start, deleteCount) ==
    LET len == Len(list)
        from == IF start < 0 THEN Max(len + start, 0) ELSE Min(start, len)
        cnt == Min(Max(deleteCount, 0), len - from)
    IN  SubSeq(list, 1, from) \o SubSeq(list, from + cnt + 1, len)

\* Array.prototype.push
push(list, x) == Append(list, x)

(***************************************************************************)
(* The GameCore instance as a record, and the observations of a handler    *)
(***************************************************************************)
\* all the list names the constructor declares in this.components
componentLists ==
    {"inactive"} \cup {gameComponentTypes[i] : i \in DOMAIN gameComponentTypes}
                 \cup {renderComponentTypes[i] : i \in DOMAIN renderComponentTypes}

\* all the bucket names the constructor declares in this.gameObjects
objectBuckets ==
    {"unnamed"} \cup {gameObjectTypes[i] : i \in DOMAIN gameObjectTypes}

\* the tick length is taken from the options when they carry one
constructorWithOptionSpeed ==
    [ speed         |-> IF "speed" \in DOMAIN options
                        THEN options.speed ELSE NORMAL,
      previous      |-> Null,
      lag           |-> 0,
      components    |-> [n \in componentLists |-> <<>>],
      gameObjects   |-> [n \in objectBuckets |-> <<>>],
      openMenus     |-> <<>>,
      reRenderMenus |-> FALSE,
      raised        |-> FALSE,
      elapsed       |-> 0,
      lagBefore     |-> 0,
      passes        |-> <<>>,
      calls         |-> <<>>,
      pushed        |-> <<>>,
      attached      |-> <<>>,
      projected     |-> 0 ]

\* the object built by the constructor
constructor ==
    [ speed         |-> NORMAL,
      previous      |-> Null,
      lag           |-> 0,
      components    |-> [n \in componentLists |-> <<>>],
      gameObjects   |-> [n \in objectBuckets |-> <<>>],
      openMenus     |-> <<>>,
      reRenderMenus |-> FALSE,
      raised        |-> FALSE,
      elapsed       |-> 0,
      lagBefore     |-> 0,
      passes        |-> <<>>,
      calls         |-> <<>>,
      pushed        |-> <<>>,
      attached      |-> <<>>,
      projected     |-> 0 ]

\* the instance as a handler finds it: the observations start empty
This ==
    [ speed         |-> speed,
      previous      |-> previous,
      lag           |-> lag,
      components    |-> components,
      gameObjects   |-> gameObjects,
      openMenus     |-> openMenus,
      reRenderMenus |-> reRenderMenus,
      raised        |-> FALSE,
      elapsed       |-> 0,
      lagBefore     |-> 0,
      passes        |-> <<>>,
      calls         |-> <<>>,
      pushed        |-> pushed,
      attached      |-> attached,
      projected     |-> 0 ]

\* the instance as a handler leaves it
Becomes(g, name, with) ==
    /\ speed' = g.speed
    /\ previous' = g.previous
    /\ lag' = g.lag
    /\ components' = g.components
    /\ gameObjects' = g.gameObjects
    /\ openMenus' = g.openMenus
    /\ reRenderMenus' = g.reRenderMenus
    /\ raised' = g.raised
    /\ elapsed' = g.elapsed
    /\ lagBefore' = g.lagBefore
    /\ passes' = g.passes
    /\ calls' = g.calls
    /\ pushed' = g.pushed
    /\ attached' = g.attached
    /\ projected' = g.projected
    /\ op' = name
    /\ arg' = with

(***************************************************************************)
(* updateComponents, updateGameState, renderGraphics                       *)
(***************************************************************************)
\* removal by moving the last element into the hole
swapWithLast(componentList, component) ==
    LET at == indexOf(componentList, component) + 1
        len == Len(componentList)
    IN  IF at = len
        THEN SubSeq(componentList, 1, len - 1)
        ELSE [k \in 1..(len - 1) |->
                 IF k = at THEN componentList[len] ELSE componentList[k]]

\* the component is left where it is
keepComponent(componentList, component) == componentList

\* line 305: componentList.splice(componentList.indexOf(component), 1)
removeComponent(componentList, component) ==
    splice(componentList, indexOf(componentList, component), 1)

\* a deactivated component is removed and kept nowhere
updateOneDropping(g, componentName, component, delta, result) ==
    LET called == [g EXCEPT !.calls =
                       Append(@, [pass      |-> Len(g.passes),
                                  list      |-> componentName,
                                  component |-> component,
                                  delta     |-> delta,
                                  result    |-> result])]
    IN  CASE result = "throw" -> [called EXCEPT !.raised = TRUE]
          [] result = "true"  -> called
          [] OTHER ->
               [called EXCEPT
                   !.components[componentName] = removeComponent(@, component)]

\* lines 304-307: one component.update call and what follows its result
updateOne(g, componentName, component, delta, result) ==
    LET called == [g EXCEPT !.calls =
                       Append(@, [pass      |-> Len(g.passes),
                                  list      |-> componentName,
                                  component |-> component,
                                  delta     |-> delta,
                                  result    |-> result])]
    IN  CASE result = "throw" -> [called EXCEPT !.raised = TRUE]
          [] result = "true"  -> called
          [] OTHER ->
               [called EXCEPT
                   !.components[componentName] = removeComponent(@, component),
                   !.components["inactive"] = push(@, component)]

\* lines 303-308: for (const component of componentList), the array iterator
\* reads componentList[i] while i < componentList.length, on the live array
RECURSIVE scanList(_, _, _, _, _)
scanList(g, componentName, i, delta, res) ==
    LET componentList == g.components[componentName]
    IN  IF g.raised \/ i >= Len(componentList)
        THEN g
        ELSE scanList(updateOne(g, componentName, componentList[i + 1], delta,
                                res[componentList[i + 1]]),
                      componentName, i + 1, delta, res)

\* lines 300-309: for (const componentName of nameset)
RECURSIVE scanLists(_, _, _, _, _)
scanLists(g, nameset, k, delta, res) ==
    IF g.raised \/ k > Len(nameset)
    THEN g
    ELSE scanLists(scanList(g, nameset[k], 0, delta, res),
                   nameset, k + 1, delta, res)

\* the lists of the nameset are scanned from the last to the first
updateComponentsLastFirst(g, nameset, delta, res) ==
    scanLists(g, [k \in DOMAIN nameset |-> nameset[Len(nameset) + 1 - k]],
              1, delta, res)

updateComponents(g, nameset, delta, res) ==
    scanLists(g, nameset, 1, delta, res)

updateGameState(g, delta, res) ==
    updateComponents(
        [g EXCEPT !.passes = Append(@, [kind |-> "simulation", delta |-> delta])],
        gameComponentTypes, delta, res)

\* a render that leaves the flag set
renderMenusKeepFlag(g) ==
    IF g.reRenderMenus THEN [g EXCEPT !.projected = @ + 1] ELSE g

\* lines 321-329: the overlay is rendered when the flag is set
renderMenus(g) ==
    IF g.reRenderMenus
    THEN [g EXCEPT !.reRenderMenus = FALSE, !.projected = @ + 1]
    ELSE g

renderGraphics(g, lagArg, res) ==
    LET updated == updateComponents(
                       [g EXCEPT !.passes = Append(@, [kind  |-> "presentation",
                                                       delta |-> lagArg])],
                       renderComponentTypes, lagArg, res)
    IN  IF updated.raised THEN updated ELSE renderMenus(updated)

(***************************************************************************)
(* gameLoop                                                                *)
(***************************************************************************)
\* a tick length handed over in place of the tick count
tickLength(g) == g.speed

\* line 275: Math.floor(this.lag / this.speed)
tickDelta(g) == g.lag \div g.speed

\* one tick paid per pass in place of all of them
lagMinusOneTick(g) == g.lag - g.speed

\* the lag is left as it is
lagKept(g) == g.lag

\* line 276: this.lag %= this.speed
lagAfterUpdate(g) == g.lag % g.speed

\* a loop that stops one comparison early
owesMoreThanTick(g) == g.lag > g.speed

\* line 273: the condition of the while loop
owesTick(g) == g.lag >= g.speed

\* lines 273-277: while (this.lag >= this.speed)
RECURSIVE catchUp(_, _)
catchUp(g, res) ==
    IF g.raised \/ ~owesTick(g)
    THEN g
    ELSE LET updated == updateGameState(g, tickDelta(g), res)
         IN  IF updated.raised
             THEN updated
             ELSE catchUp([updated EXCEPT !.lag = lagAfterUpdate(updated)], res)

\* a frame that renders before it catches up
gameLoopRenderFirst(g, current, res) ==
    LET timed == [g EXCEPT !.elapsed = current - g.previous,
                           !.lagBefore = g.lag,
                           !.previous = current,
                           !.lag = @ + (current - g.previous)]
        drawn == renderGraphics(timed, timed.lag, res)
    IN  IF drawn.raised THEN drawn ELSE catchUp(drawn, res)

\* lines 260-283; `current` is the value of new Date().getTime()
gameLoop(g, current, res) ==
    LET timed == [g EXCEPT !.elapsed = current - g.previous,
                           !.lagBefore = g.lag,
                           !.previous = current,
                           !.lag = @ + (current - g.previous)]
        caught == catchUp(timed, res)
    IN  IF caught.raised THEN caught ELSE renderGraphics(caught, caught.lag, res)

(***************************************************************************)
(* addNewGameObject, createNewGame                                         *)
(***************************************************************************)
\* an unknown field name falls back to a list that exists
listOfOrInactive(componentName) ==
    IF (componentName \o "s") \in componentLists
    THEN componentName \o "s"
    ELSE "inactive"

\* line 346: the list a component field name selects
listOf(componentName) == componentName \o "s"

\* lines 344-347: push every component on the list its field name selects;
\* this.components[...] of an undeclared name is undefined and .push throws
RECURSIVE pushComponents(_, _, _)
pushComponents(g, fields, k) ==
    IF g.raised \/ k > Len(fields)
    THEN g
    ELSE IF listOf(fields[k][1]) \in DOMAIN g.components
         THEN pushComponents(
                  [g EXCEPT !.components[listOf(fields[k][1])] =
                                push(@, fields[k][2]),
                            !.pushed = Append(@, fields[k][2])],
                  fields, k + 1)
         ELSE [g EXCEPT !.raised = TRUE]

\* line 350: component.addComponent(this); the hook finds the engine as it
\* is at the call, with the component on its list or not yet
addComponent(g, componentName, component) ==
    LET name == componentName \o "s"
        onList == /\ name \in DOMAIN g.components
                  /\ \E i \in DOMAIN g.components[name] :
                         g.components[name][i] = component
    IN  [g EXCEPT !.attached =
                      Append(@, [component |-> component, listed |-> onList])]

\* lines 349-351: component.addComponent(this) for every component
RECURSIVE attachComponents(_, _, _)
attachComponents(g, fields, k) ==
    IF k > Len(fields)
    THEN g
    ELSE attachComponents(addComponent(g, fields[k][1], fields[k][2]),
                          fields, k + 1)

\* one loop: each component is attached, then pushed on its list
RECURSIVE attachThenPush(_, _, _)
attachThenPush(g, fields, k) ==
    IF g.raised \/ k > Len(fields)
    THEN g
    ELSE LET hooked == addComponent(g, fields[k][1], fields[k][2])
         IN  IF listOf(fields[k][1]) \in DOMAIN g.components
             THEN attachThenPush(
                      [hooked EXCEPT !.components[listOf(fields[k][1])] =
                                         push(@, fields[k][2]),
                                     !.pushed = Append(@, fields[k][2])],
                      fields, k + 1)
             ELSE [hooked EXCEPT !.raised = TRUE]

\* an unknown bucket falls back to the first declared bucket
bucketOfOrFirst(g, objectType) ==
    IF (objectType \o "s") \in DOMAIN g.gameObjects
    THEN objectType \o "s"
    ELSE gameObjectTypes[1]

\* lines 353-357: the bucket of the entity; a missing bucket makes .push
\* throw, and the catch clause stores the entity in "unnamed"
bucketOf(g, objectType) ==
    IF (objectType \o "s") \in DOMAIN g.gameObjects
    THEN objectType \o "s"
    ELSE "unnamed"

\* the push on "unnamed" runs whether the bucket exists or not
addNewGameObjectAlsoUnnamed(g, name) ==
    LET object == Entities[name]
        listed == pushComponents(g, object.components, 1)
        hooked == attachComponents(listed, object.components, 1)
        stored == [hooked EXCEPT
                      !.gameObjects[bucketOf(g, object.objectType)] =
                          push(@, name)]
    IN  IF listed.raised
        THEN listed
        ELSE IF bucketOf(g, object.objectType) = "unnamed"
             THEN stored
             ELSE [stored EXCEPT !.gameObjects["unnamed"] = push(@, name)]

\* the components are attached before they are pushed
addNewGameObjectAttachFirst(g, name) ==
    LET object == Entities[name]
        hooked == attachThenPush(g, object.components, 1)
    IN  IF hooked.raised
        THEN hooked
        ELSE [hooked EXCEPT !.gameObjects[bucketOf(g, object.objectType)] =
                                push(@, name)]

\* lines 343-358; `name` identifies the entity in the catalogue
addNewGameObject(g, name) ==
    LET object == Entities[name]
        listed == pushComponents(g, object.components, 1)
        hooked == attachComponents(listed, object.components, 1)
    IN  IF listed.raised
        THEN listed
        ELSE [hooked EXCEPT !.gameObjects[bucketOf(g, object.objectType)] =
                                push(@, name)]

\* lines 332-341: the map first, then the cities, stopping at an exception
RECURSIVE addAll(_, _, _)
addAll(g, world, k) ==
    IF g.raised \/ k > Len(world)
    THEN g
    ELSE addAll(addNewGameObject(g, world[k]), world, k + 1)

createNewGame(g, cities) == addAll(g, <<"map">> \o cities, 1)

(***************************************************************************)
(* addMenu, removeMenu                                                     *)
(***************************************************************************)
\* lines 360-363
addMenu(g, component) ==
    [g EXCEPT !.openMenus = push(@, component), !.reRenderMenus = TRUE]

\* a removal of every matching element
removeEveryMenu(g, component) ==
    [g EXCEPT !.openMenus = SelectSeq(@, LAMBDA m : m # component),
              !.reRenderMenus = TRUE]

\* lines 365-368
removeMenu(g, component) ==
    [g EXCEPT !.openMenus = splice(@, indexOf(@, component), 1),
              !.reRenderMenus = TRUE]

(***************************************************************************)
(* Inputs                                                                  *)
(***************************************************************************)
\* the components of a set of entities
ComponentsOf(names) ==
    UNION {{Entities[n].components[k][2] : k \in DOMAIN Entities[n].components}
           : n \in names}

\* the components held by the category lists of g
ActiveIn(g) ==
    UNION {{g.components[n][i] : i \in DOMAIN g.components[n]}
           : n \in DOMAIN g.components \ {"inactive"}}

\* what the update of every component of S does when called: a throw ends
\* the handler, so one thrower is enough
Results(S) ==
    {res \in [S -> Outcomes] :
        Cardinality({c \in S : res[c] = "throw"}) <= 1}

\* the city lists of the "debug" save
SmallSaves == {<<>>, <<"city">>}

LargeSaves == {<<"city", "merchant">>, <<"merchant", "band", "city">>}

(***************************************************************************)
(* The startup sequence (startGame, loadGameConfig, loadGameGraphics,      *)
(* loadGameSave)                                                           *)
(***************************************************************************)
\* lines 96 and 99: each then() is given a fulfilment callback only, and
\* startGame returns nothing, so a rejection reaches no handler
onRejected == "none"

\* no startup promise has been rejected
noFailure == [reason |-> "none", outcome |-> "none"]

\* reject(reason) on a promise of the startup chain: the first rejection
\* settles it, and it is reported only if a rejection handler is attached
reject(f, reason) ==
    IF f.reason # "none"
    THEN f
    ELSE [reason  |-> reason,
          outcome |-> IF onRejected = "none" THEN "unhandled" ELSE "reported"]

\* the option objects of `new GameCore(options)`: with or without debug
PlainOptions == {[debug |-> FALSE], [debug |-> TRUE]}

\* option objects that also ask for a tick length, zero or negative
TickOptions ==
    PlainOptions \cup {[debug |-> FALSE, speed |-> 0],
                       [debug |-> TRUE, speed |-> -1000]}

\* lines 68-83: the options are spread over the default {debug: false}
createConfig(o) == o @@ [debug |-> FALSE]

\* lines 36-66: the engine after `new GameCore(options)`
Constructed(O) ==
    /\ options \in O
    /\ speed = constructor.speed
    /\ previous = constructor.previous
    /\ lag = constructor.lag
    /\ components = constructor.components
    /\ gameObjects = constructor.gameObjects
    /\ openMenus = constructor.openMenus
    /\ reRenderMenus = constructor.reRenderMenus
    /\ debug = createConfig(options).debug
    /\ failure = noFailure
    /\ phase = "constructed"
    /\ pending = {}
    /\ submitted = {}
    /\ op = "constructor"
    /\ arg = "none"
    /\ raised = FALSE
    /\ elapsed = 0
    /\ lagBefore = 0
    /\ passes = <<>>
    /\ calls = <<>>
    /\ pushed = <<>>
    /\ attached = <<>>
    /\ projected = 0

Init == Constructed(PlainOptions)

InitOptions == Constructed(TickOptions)

\* lines 86-89: previous is read from the clock, then gameLoop runs at once
startGameLoop(g, firstElapsed, res) ==
    gameLoop([g EXCEPT !.previous = StartTime], StartTime + firstElapsed, res)

\* the next frame is requested whatever the frame did
alwaysRunning(g) == "running"

\* requestAnimationFrame is reached unless the frame threw
AfterFrame(g) == IF g.raised THEN "halted" ELSE "running"

\* the first load to complete is enough
anyLoaded == pending # {"config", "graphics"}

\* lines 91-96: Promise.all is fulfilled when both loads have resolved
allLoaded == pending = {}

\* lines 85-108 up to Promise.all: both loads are started
StartGame ==
    /\ phase = "constructed"
    /\ phase' = "loading"
    /\ pending' = {"config", "graphics"}
    /\ Becomes(This, "startGame", "none")
    /\ UNCHANGED <<debug, options, failure, submitted>>

\* lines 115-126: the callback of jsonStorage.has("configfile")
ConfigLoaded ==
    /\ "config" \in pending
    /\ \E err \in BOOLEAN, hasKey \in BOOLEAN :
          /\ phase' = IF ~err /\ hasKey THEN phase ELSE "failed"
          /\ failure' = IF err THEN reject(failure, "error")
                        ELSE IF hasKey THEN failure
                        ELSE reject(failure, "no config file")
    /\ pending' = pending \ {"config"}
    /\ Becomes(This, "loadGameConfig", "none")
    /\ UNCHANGED <<debug, options, submitted>>

\* lines 148-230: the callback of PIXI.loader.load, which resolves
GraphicsLoaded ==
    /\ "graphics" \in pending
    /\ pending' = pending \ {"graphics"}
    /\ Becomes(This, "loadGameGraphics", "none")
    /\ UNCHANGED <<debug, options, failure, phase, submitted>>

\* lines 96-107, debug: loadGameSave("debug") is started
LoadedDebug ==
    /\ phase = "loading" /\ allLoaded
    /\ debug
    /\ phase' = "saveLoading"
    /\ pending' = {"has"}
    /\ Becomes(This, "loadGameSave", "none")
    /\ UNCHANGED <<debug, options, failure, submitted>>

\* lines 96-107, no debug: createNewGame() and startGameLoop()
LoadedNew(E) ==
    /\ phase = "loading" /\ allLoaded
    /\ ~debug
    /\ LET created == createNewGame(This, <<>>)
       IN  IF created.raised
           THEN /\ phase' = "failed"
                /\ Becomes(created, "createNewGame", "none")
           ELSE \E e \in E, res \in Results(ActiveIn(created)) :
                   LET g == startGameLoop(created, e, res)
                   IN  /\ phase' = AfterFrame(g)
                       /\ Becomes(g, "gameLoop", "none")
    /\ submitted' = {"map"}
    /\ UNCHANGED <<debug, options, failure, pending>>

\* lines 239-256: the callback of jsonStorage.has(saveName)
SaveHas ==
    /\ "has" \in pending
    /\ \E err \in BOOLEAN, hasKey \in BOOLEAN :
          /\ IF hasKey
             THEN /\ pending' = {"get"}
                  /\ phase' = IF err THEN "saveRejected" ELSE phase
             ELSE /\ pending' = {}
                  /\ phase' = "failed"
          /\ failure' = IF err THEN reject(failure, "error")
                        ELSE IF hasKey THEN failure
                        ELSE reject(failure, "no save")
    /\ Becomes(This, "loadGameSave", "none")
    /\ UNCHANGED <<debug, options, submitted>>

\* lines 245-251: the callback of jsonStorage.get(saveName); with an error
\* the data may be missing, and reading data.mapTerrain then throws
SaveGet(saves) ==
    /\ "get" \in pending
    /\ pending' = {}
    /\ \E err \in BOOLEAN, hasData \in BOOLEAN :
          /\ ~err => hasData
          /\ failure' = IF err THEN reject(failure, "error") ELSE failure
          /\ IF ~hasData
             THEN /\ phase' = "failed"
                  /\ Becomes([This EXCEPT !.raised = TRUE],
                             "loadGameSave", "none")
                  /\ UNCHANGED submitted
             ELSE \E cities \in saves :
                     LET created == createNewGame(This, cities)
                     IN  /\ phase' = IF created.raised \/ err
                                        \/ phase = "saveRejected"
                                     THEN "failed" ELSE "saveLoaded"
                         /\ Becomes(created, "createNewGame", "none")
                         /\ submitted' = {"map"} \cup
                                {cities[k] : k \in DOMAIN cities}
    /\ UNCHANGED <<debug, options>>

\* lines 99-101: the then-callback of loadGameSave
SaveLoaded(E) ==
    /\ phase = "saveLoaded"
    /\ \E e \in E, res \in Results(ActiveIn(This)) :
          LET g == startGameLoop(This, e, res)
          IN  /\ phase' = AfterFrame(g)
              /\ Becomes(g, "gameLoop", "none")
    /\ UNCHANGED <<debug, options, failure, pending, submitted>>

(***************************************************************************)
(* The running engine                                                      *)
(***************************************************************************)
\* the requestAnimationFrame callback
GameLoop(E) ==
    /\ phase = "running"
    /\ \E e \in E, res \in Results(ActiveIn(This)) :
          /\ previous + e <= MaxTime
          /\ LET g == gameLoop(This, previous + e, res)
             IN  /\ phase' = AfterFrame(g)
                 /\ Becomes(g, "gameLoop", "none")
    /\ UNCHANGED <<debug, options, failure, pending, submitted>>

\* an entity is registered while the game runs
AddNewGameObject(names) ==
    /\ phase = "running"
    /\ \E name \in names \ submitted :
          /\ Becomes(addNewGameObject(This, name), "addNewGameObject", name)
          /\ submitted' = submitted \cup {name}
    /\ UNCHANGED <<debug, options, failure, phase, pending>>

AddMenu ==
    /\ phase = "running"
    /\ Len(openMenus) < MaxMenus
    /\ \E component \in Menus :
          Becomes(addMenu(This, component), "addMenu", component)
    /\ UNCHANGED <<debug, options, failure, phase, pending, submitted>>

RemoveMenu ==
    /\ phase = "running"
    /\ \E component \in Menus :
          Becomes(removeMenu(This, component), "removeMenu", component)
    /\ UNCHANGED <<debug, options, failure, phase, pending, submitted>>

(***************************************************************************)
(* Specifications.  Spec is the engine with its menus and the frame times  *)
(* of Elapsed, over a small world; SpecRegistry is the engine with every   *)
(* entity of the catalogue, registered at load time or while the game      *)
(* runs, and frames of whole ticks.                                        *)
(***************************************************************************)
Next ==
    \/ StartGame
    \/ ConfigLoaded
    \/ GraphicsLoaded
    \/ LoadedDebug
    \/ LoadedNew(Elapsed)
    \/ SaveHas
    \/ SaveGet(SmallSaves)
    \/ SaveLoaded(Elapsed)
    \/ GameLoop(Elapsed)
    \/ AddNewGameObject({"band"})
    \/ AddMenu
    \/ RemoveMenu

Spec == Init /\ [][Next]_vars

NextRegistry ==
    \/ StartGame
    \/ ConfigLoaded
    \/ GraphicsLoaded
    \/ LoadedDebug
    \/ LoadedNew(CoarseElapsed)
    \/ SaveHas
    \/ SaveGet(LargeSaves)
    \/ SaveLoaded(CoarseElapsed)
    \/ GameLoop(CoarseElapsed)
    \/ AddNewGameObject(EntityNames)

SpecRegistry == Init /\ [][NextRegistry]_vars

\* the engine constructed with any of TickOptions, started and run
NextOptions ==
    \/ StartGame
    \/ ConfigLoaded
    \/ GraphicsLoaded
    \/ LoadedDebug
    \/ LoadedNew(CoarseElapsed)
    \/ SaveHas
    \/ SaveGet(SmallSaves)
    \/ SaveLoaded(CoarseElapsed)
    \/ GameLoop(CoarseElapsed)

SpecOptions == InitOptions /\ [][NextOptions]_vars

(***************************************************************************)
(* gameLoop statement by statement.  A frame of SpecLoop is FrameBegin,    *)
(* then one LoopStep per iteration of the while loop, LoopExit when its    *)
(* condition is false, and Render; phase holds the position inside the     *)
(* invocation ("catchUp" at the loop condition, "render" after the loop).  *)
(***************************************************************************)
\* the instance inside a gameLoop invocation: the observations go on
Continuing ==
    [This EXCEPT !.elapsed = elapsed, !.lagBefore = lagBefore,
                 !.passes = passes, !.calls = calls]

\* lines 266-269: the requestAnimationFrame callback reads the clock
FrameBegin(E) ==
    /\ phase = "running"
    /\ \E e \in E :
          /\ previous + e <= MaxTime
          /\ Becomes([This EXCEPT !.elapsed = e,
                                  !.lagBefore = lag,
                                  !.previous = previous + e,
                                  !.lag = @ + e],
                     "gameLoop", "none")
    /\ phase' = "catchUp"
    /\ UNCHANGED <<debug, options, failure, pending, submitted>>

\* lines 273-277: the condition holds and the body of the loop runs
LoopStep ==
    /\ phase = "catchUp"
    /\ owesTick(Continuing)
    /\ Len(passes) < MaxPasses
    /\ \E res \in Results(ActiveIn(This)) :
          \E updated \in {updateGameState(Continuing, tickDelta(Continuing),
                                          res)} :
             IF updated.raised
             THEN /\ phase' = "halted"
                  /\ Becomes(updated, "gameLoop", "none")
             ELSE /\ phase' = "catchUp"
                  /\ Becomes([updated EXCEPT !.lag = lagAfterUpdate(updated)],
                             "gameLoop", "none")
    /\ UNCHANGED <<debug, options, failure, pending, submitted>>

\* line 273: the condition is false and the loop is left
LoopExit ==
    /\ phase = "catchUp"
    /\ ~owesTick(Continuing)
    /\ phase' = "render"
    /\ Becomes(Continuing, "gameLoop", "none")
    /\ UNCHANGED <<debug, options, failure, pending, submitted>>

\* lines 282-296: renderGraphics, then requestAnimationFrame
Render ==
    /\ phase = "render"
    /\ \E res \in Results(ActiveIn(This)) :
          \E g \in {renderGraphics(Continuing, lag, res)} :
             /\ phase' = AfterFrame(g)
             /\ Becomes(g, "gameLoop", "none")
    /\ UNCHANGED <<debug, options, failure, pending, submitted>>

\* the first frame follows startGameLoop at once
FirstElapsed == {0}

NextLoop ==
    \/ StartGame
    \/ ConfigLoaded
    \/ GraphicsLoaded
    \/ LoadedDebug
    \/ LoadedNew(FirstElapsed)
    \/ SaveHas
    \/ SaveGet(SmallSaves)
    \/ SaveLoaded(FirstElapsed)
    \/ FrameBegin(Elapsed)
    \/ LoopStep
    \/ LoopExit
    \/ Render

\* gameLoop is one synchronous function: once entered, its statements run
SpecLoop ==
    /\ Init
    /\ [][NextLoop]_vars
    /\ WF_vars(LoopStep)
    /\ WF_vars(LoopExit)
    /\ WF_vars(Render)

TypeOK ==
    /\ speed \in {SLOW, NORMAL, FAST}
    /\ lag \in Nat
    /\ phase \in {"constructed", "loading", "saveLoading", "saveRejected",
                  "saveLoaded", "running", "failed", "halted",
                  "catchUp", "render"}

(***************************************************************************)
(* Observations of the last frame                                          *)
(***************************************************************************)
\* ticks owed when the last frame started its catch-up
Owed == (lagBefore + elapsed) \div speed

IsSimulation(p) == p.kind = "simulation"

IsPresentation(p) == p.kind = "presentation"

SimulationPasses == SelectSeq(passes, IsSimulation)

PresentationPasses == SelectSeq(passes, IsPresentation)

\* the kind of the pass a call was made in
KindOf(call) == passes[call.pass].kind

\* every simulation pass started before every presentation pass
SimulationFirst ==
    \A i, j \in DOMAIN passes :
        IsSimulation(passes[i]) /\ IsPresentation(passes[j]) => i < j

(***************************************************************************)
(* C1 (as stated): a frame that returns has run as many simulation update  *)
(* passes as ticks were owed, floor((lagBefore + elapsed) / speed), all of *)
(* them before the presentation pass.                                      *)
(***************************************************************************)
C1_EveryOwedTickIsAPass ==
    (op = "gameLoop" /\ ~raised) =>
        /\ Len(SimulationPasses) = Owed
        /\ SimulationFirst

(***************************************************************************)
(* C1 (amended): a frame runs one simulation update pass when at least one *)
(* tick is owed and none otherwise; that single pass is handed the number  *)
(* of owed ticks floor((lagBefore + elapsed) / speed) as its delta, and it *)
(* starts before the presentation pass.                                    *)
(***************************************************************************)
C1_OnePassForAllOwedTicks ==
    op = "gameLoop" =>
        /\ SimulationPasses =
               IF Owed >= 1
               THEN << [kind |-> "simulation", delta |-> Owed] >>
               ELSE << >>
        /\ SimulationFirst

C1_Witness ==
    /\ op = "gameLoop" /\ ~raised
    /\ Owed >= 2
    /\ Len(SimulationPasses) = 1
    /\ \E i \in DOMAIN calls : KindOf(calls[i]) = "simulation"

(***************************************************************************)
(* C2 (as stated): every update call of a simulation pass receives the     *)
(* tick length speed as delta; with speed = 2000, previous = 0 and a frame *)
(* at now = 4500, two simulation passes run with delta 2000 each, then one *)
(* presentation pass with delta 500.                                       *)
(***************************************************************************)
Scenario4500 ==
    /\ op = "gameLoop" /\ ~raised
    /\ speed = 2000 /\ lagBefore = 0 /\ elapsed = 4500 /\ previous = 4500

C2_DeltaIsTickLength ==
    /\ op = "gameLoop" =>
          \A i \in DOMAIN calls :
              KindOf(calls[i]) = "simulation" => calls[i].delta = speed
    /\ Scenario4500 =>
          passes = << [kind |-> "simulation", delta |-> 2000],
                      [kind |-> "simulation", delta |-> 2000],
                      [kind |-> "presentation", delta |-> 500] >>

(***************************************************************************)
(* C2 (amended): every update call of a simulation pass receives the       *)
(* number of owed ticks floor(lag / speed) as delta; with speed = 2000,    *)
(* previous = 0 and a frame at now = 4500, one simulation pass runs with   *)
(* delta 2, then one presentation pass with delta 500.                     *)
(***************************************************************************)
C2_DeltaIsOwedTicks ==
    /\ op = "gameLoop" =>
          \A i \in DOMAIN calls :
              KindOf(calls[i]) = "simulation" => calls[i].delta = Owed
    /\ Scenario4500 =>
          passes = << [kind |-> "simulation", delta |-> 2],
                      [kind |-> "presentation", delta |-> 500] >>

C2_Witness ==
    /\ Scenario4500
    /\ \E i \in DOMAIN calls :
          KindOf(calls[i]) = "simulation" /\ calls[i].delta = 2
    /\ \E i \in DOMAIN calls :
          KindOf(calls[i]) = "presentation" /\ calls[i].delta = 500

(***************************************************************************)
(* C3: after every gameLoop invocation that returns (elapsed >= 0,         *)
(* speed > 0), 0 <= lag < speed.                                           *)
(***************************************************************************)
C3_LagWithinTick ==
    (op = "gameLoop" /\ ~raised) => (0 <= lag /\ lag < speed)

C3_Witness ==
    /\ op = "gameLoop" /\ ~raised
    /\ lagBefore > 0
    /\ lagBefore + elapsed >= speed
    /\ lag > 0

(***************************************************************************)
(* C4: every gameLoop invocation that returns has run exactly one          *)
(* presentation pass; that pass starts after every simulation pass of the  *)
(* invocation has made all its calls, it is handed the lag left after the  *)
(* ticks, and no simulation call follows a presentation call.              *)
(***************************************************************************)
C4_OnePresentationPassLast ==
    op = "gameLoop" =>
        /\ Len(PresentationPasses) <= 1
        /\ SimulationFirst
        /\ \A i, j \in DOMAIN calls :
               (KindOf(calls[i]) = "presentation"
                    /\ KindOf(calls[j]) = "simulation") => j < i
        /\ \A i \in DOMAIN calls :
               KindOf(calls[i]) = "presentation" =>
                   calls[i].delta = (lagBefore + elapsed) % speed
        /\ ~raised =>
               /\ Len(PresentationPasses) = 1
               /\ passes[Len(passes)] =
                      [kind |-> "presentation", delta |-> lag]
               /\ lag = (lagBefore + elapsed) % speed

C4_Witness ==
    /\ op = "gameLoop" /\ ~raised
    /\ lag > 0
    /\ \E i \in DOMAIN calls : KindOf(calls[i]) = "simulation"
    /\ \E i \in DOMAIN calls : KindOf(calls[i]) = "presentation"

(***************************************************************************)
(* Observations of the lists                                               *)
(***************************************************************************)
InSeq(x, list) == \E i \in DOMAIN list : list[i] = x

\* the names of the category lists
categoryLists == componentLists \ {"inactive"}

\* the lists a pass of the given kind scans
NamesetOf(kind) ==
    IF kind = "simulation" THEN gameComponentTypes ELSE renderComponentTypes

\* the list is in the order its components were pushed
InPushOrder(list, order) ==
    \A i, j \in DOMAIN list :
        i < j => indexOf(order, list[i]) < indexOf(order, list[j])

(***************************************************************************)
(* C5 (as stated): in a frame that returns, every component that was in a  *)
(* category's active sequence when the scan of a pass started has its      *)
(* update called exactly once in that pass, also when it stands after a    *)
(* component that the same scan deactivates.                               *)
(***************************************************************************)
C5_EveryComponentUpdatedOnce ==
    [][ (phase = "running" /\ op' = "gameLoop" /\ ~raised') =>
            \A p \in DOMAIN passes' :
                \A k \in DOMAIN NamesetOf(passes'[p].kind) :
                    LET name == NamesetOf(passes'[p].kind)[k]
                    IN  \A i \in DOMAIN components[name] :
                            Cardinality(
                                {c \in DOMAIN calls' :
                                    /\ calls'[c].pass = p
                                    /\ calls'[c].list = name
                                    /\ calls'[c].component =
                                           components[name][i]}) = 1
      ]_vars

(***************************************************************************)
(* C6: every category's active sequence is in the order in which its       *)
(* components were registered, and a frame leaves in each list exactly the *)
(* components whose update did not return false, in their earlier order    *)
(* ([A, B, C] with B returning false becomes [A, C]).                      *)
(***************************************************************************)
C6_OrderIsRegistrationOrder ==
    [][ /\ \A name \in categoryLists :
               InPushOrder(components'[name], pushed')
        /\ (phase = "running" /\ op' = "gameLoop") =>
               \A name \in categoryLists :
                   components'[name] =
                       SelectSeq(components[name],
                                 LAMBDA x :
                                     ~\E c \in DOMAIN calls' :
                                         /\ calls'[c].list = name
                                         /\ calls'[c].component = x
                                         /\ calls'[c].result = "false")
      ]_vars

C6_Witness ==
    /\ op = "gameLoop"
    /\ indexOf(pushed, 1) < indexOf(pushed, 3)
    /\ indexOf(pushed, 3) < indexOf(pushed, 5)
    /\ components["physicsComponents"] = <<1, 5>>
    /\ \E c \in DOMAIN calls :
          calls[c].component = 1 /\ calls[c].result = "true"
    /\ \E c \in DOMAIN calls :
          calls[c].component = 3 /\ calls[c].result = "false"

(***************************************************************************)
(* C7 (as stated): removeMenu of a component that is not in openMenus      *)
(* changes neither openMenus nor the flag reRenderMenus.                   *)
(***************************************************************************)
C7_RemoveAbsentMenuIsNoOp ==
    [][ (op' = "removeMenu" /\ ~InSeq(arg', openMenus)) =>
            /\ openMenus' = openMenus
            /\ reRenderMenus' = reRenderMenus
      ]_vars

(***************************************************************************)
(* C8: removeMenu of a component that is in openMenus removes its first    *)
(* occurrence, keeps every other element in place and in order, and sets   *)
(* reRenderMenus.                                                          *)
(***************************************************************************)
C8_RemovePresentMenu ==
    [][ (op' = "removeMenu" /\ InSeq(arg', openMenus)) =>
            /\ \E i \in DOMAIN openMenus :
                   /\ openMenus[i] = arg'
                   /\ \A j \in 1..(i - 1) : openMenus[j] # arg'
                   /\ openMenus' = SubSeq(openMenus, 1, i - 1)
                                   \o SubSeq(openMenus, i + 1, Len(openMenus))
            /\ reRenderMenus' = TRUE
      ]_vars

\* MenuA was removed while it was open twice: one occurrence is left
C8_Witness ==
    /\ op = "removeMenu" /\ arg = "MenuA"
    /\ openMenus = <<"MenuA">>
    /\ reRenderMenus

(***************************************************************************)
(* C9: a frame that returns renders the overlay once if reRenderMenus was  *)
(* set and not at all otherwise, and leaves the flag cleared; addMenu and  *)
(* removeMenu set the flag, so the next frame renders the overlay, and the *)
(* second of two frames in a row does not.                                 *)
(***************************************************************************)
C9_ProjectIffDirty ==
    [][ /\ (op' = "gameLoop" /\ ~raised') =>
               /\ projected' = (IF reRenderMenus THEN 1 ELSE 0)
               /\ ~reRenderMenus'
        /\ (op' = "gameLoop" /\ raised') =>
               /\ projected' = 0
               /\ reRenderMenus' = reRenderMenus
        /\ op' \in {"addMenu", "removeMenu"} => reRenderMenus'
        /\ (op \in {"addMenu", "removeMenu"} /\ op' = "gameLoop" /\ ~raised')
               => projected' = 1
        /\ (op = "gameLoop" /\ ~raised /\ op' = "gameLoop")
               => projected' = 0
      ]_vars

C9_Witness ==
    /\ op = "gameLoop" /\ ~raised
    /\ projected = 1
    /\ ~reRenderMenus
    /\ Len(openMenus) > 0

(***************************************************************************)
(* C10 (as stated): an addNewGameObject that raises has changed no active  *)
(* sequence, neither the inactive sequence nor a bucket, and has called no *)
(* attach hook.                                                            *)
(***************************************************************************)
C10_RegistrationAllOrNothing ==
    [][ (op' = "addNewGameObject" /\ raised') =>
            /\ components' = components
            /\ gameObjects' = gameObjects
            /\ attached' = attached
      ]_vars

(***************************************************************************)
(* Observations of the catalogue                                           *)
(***************************************************************************)
\* the (field name, component) pairs of an entity
FieldsOf(n) == Entities[n].components

\* the field name selects one of the lists the constructor declared
Declared(componentName) == (componentName \o "s") \in componentLists

\* the entity has a component field whose list was not declared
HasUndeclaredField(n) ==
    \E k \in DOMAIN FieldsOf(n) : ~Declared(FieldsOf(n)[k][1])

\* the component is held by some list of this.components
Listed(c) == \E name \in DOMAIN components : InSeq(c, components[name])

(***************************************************************************)
(* C11: registering a component under a list name that was not declared    *)
(* fails with an error when addNewGameObject runs; no list is created for  *)
(* it and the component is stored in no list.                              *)
(***************************************************************************)
C11_UndeclaredCategoryFails ==
    /\ DOMAIN components = componentLists
    /\ \A n \in EntityNames :
           \A k \in DOMAIN FieldsOf(n) :
               ~Declared(FieldsOf(n)[k][1]) => ~Listed(FieldsOf(n)[k][2])
    /\ (op = "addNewGameObject" /\ HasUndeclaredField(arg)) => raised

C11_Witness ==
    /\ op = "addNewGameObject" /\ arg = "band"
    /\ raised
    /\ ~Listed(8)

(***************************************************************************)
(* C12: an entity whose objectType is unset or names no declared bucket is *)
(* appended to "unnamed", exactly once and to no other bucket; the         *)
(* registration raises no error and the entity's components are pushed on  *)
(* their lists and attached.                                               *)
(***************************************************************************)
\* objectType + "s" is not a key of this.gameObjects
UnknownType(n) == (Entities[n].objectType \o "s") \notin objectBuckets

CountIn(list, x) == Cardinality({i \in DOMAIN list : list[i] = x})

\* addComponent was called on the component
Attached(c) == \E i \in DOMAIN attached : attached[i].component = c

C12_UnknownTypeGoesToUnnamed ==
    /\ DOMAIN gameObjects = objectBuckets
    /\ \A n \in submitted :
           (UnknownType(n) /\ ~HasUndeclaredField(n)) =>
               /\ CountIn(gameObjects["unnamed"], n) = 1
               /\ \A b \in objectBuckets \ {"unnamed"} :
                      CountIn(gameObjects[b], n) = 0
               /\ \A k \in DOMAIN FieldsOf(n) :
                      /\ CountIn(pushed, FieldsOf(n)[k][2]) = 1
                      /\ Attached(FieldsOf(n)[k][2])
    /\ (op \in {"createNewGame", "addNewGameObject"} /\ raised) =>
           \E n \in submitted : HasUndeclaredField(n)

C12_Witness ==
    /\ "map" \in submitted
    /\ Entities["map"].objectType = "undefined"
    /\ gameObjects["unnamed"] = <<"map">>
    /\ Listed(1) /\ Listed(2)
    /\ ~raised

(***************************************************************************)
(* C13: with each entity registered once, every component that was pushed  *)
(* on a list is held exactly once by this.components: either once by the   *)
(* list its field name selects or once by "inactive", and by no other list.*)
(***************************************************************************)
\* the components pushed on a list so far
Registered == {pushed[i] : i \in DOMAIN pushed}

\* the list the field name of the component selects
OwnList(c) ==
    CHOOSE name \in componentLists :
        \E n \in EntityNames : \E k \in DOMAIN FieldsOf(n) :
            FieldsOf(n)[k][2] = c /\ name = FieldsOf(n)[k][1] \o "s"

C13_ExactlyOneList ==
    \A c \in Registered :
        /\ CountIn(components[OwnList(c)], c) + CountIn(components["inactive"], c) = 1
        /\ \A name \in componentLists \ {OwnList(c), "inactive"} :
               CountIn(components[name], c) = 0

C13_Witness ==
    /\ Cardinality(Registered) >= 5
    /\ \E c \in Registered : CountIn(components["inactive"], c) = 1
    /\ \E c \in Registered : CountIn(components[OwnList(c)], c) = 1
    /\ \E c \in Registered : OwnList(c) \in {"renderComponents", "menuComponents"}

(***************************************************************************)
(* C14: the lengths of all lists of this.components, "inactive" included,  *)
(* add up to the number of components pushed on a list so far.             *)
(***************************************************************************)
\* every list of this.components, in the order of lines 45-52
allLists == <<"inactive">> \o gameComponentTypes \o renderComponentTypes

RECURSIVE SumOfLengths(_)
SumOfLengths(names) ==
    IF names = <<>>
    THEN 0
    ELSE Len(components[Head(names)]) + SumOfLengths(Tail(names))

C14_LengthsAddUp == SumOfLengths(allLists) = Len(pushed)

C14_Witness ==
    /\ Len(pushed) >= 5
    /\ Len(components["inactive"]) >= 2
    /\ SumOfLengths(gameComponentTypes \o renderComponentTypes) >= 2
    /\ \E i \in DOMAIN passes : IsSimulation(passes[i])

(***************************************************************************)
(* C15: deactivation is terminal.  A component held by "inactive" is still *)
(* held by it after any operation, is held by no active list, and the      *)
(* operation calls update on it no more.                                   *)
(***************************************************************************)
C15_InactiveStaysInactive ==
    \A c \in Registered :
        InSeq(c, components["inactive"]) =>
            /\ InSeq(c, components'["inactive"])
            /\ \A name \in componentLists \ {"inactive"} :
                   ~InSeq(c, components'[name])
            /\ \A i \in DOMAIN calls' : calls'[i].component # c

C15_DeactivationIsTerminal == [][C15_InactiveStaysInactive]_vars

\* a frame has scanned the own list of a component deactivated before it
C15_Witness ==
    /\ op = "gameLoop"
    /\ \E c \in Registered :
           /\ InSeq(c, components["inactive"])
           /\ \A i \in DOMAIN calls : calls[i].component # c
           /\ \E i \in DOMAIN calls : calls[i].list = OwnList(c)

(***************************************************************************)
(* C16 (as stated): an engine constructed with a tick length that is zero  *)
(* or negative is rejected at construction with an error.                  *)
(***************************************************************************)
\* the options ask for a tick length that is not positive
NonPositiveRequested == "speed" \in DOMAIN options /\ options.speed <= 0

C17_ThrowHaltsTheLoop ==
    /\ (op = "gameLoop" /\ raised) =>
           /\ phase = "halted"
           /\ calls # <<>>
           /\ calls[Len(calls)].result = "throw"
           /\ calls[Len(calls)].pass = Len(passes)
           /\ \A i \in 1..(Len(calls) - 1) : calls[i].result # "throw"
           /\ projected = 0
    /\ phase = "halted" => (op = "gameLoop" /\ raised)

\* a simulation pass threw with components still to update
C17_Witness ==
    /\ op = "gameLoop" /\ raised
    /\ phase = "halted"
    /\ IsSimulation(passes[Len(passes)])
    /\ \E c \in Registered :
           /\ ~InSeq(c, components["inactive"])
           /\ \A i \in DOMAIN calls : calls[i].component # c

(***************************************************************************)
(* C18: in debug mode, when the save key asked for does not exist, startup *)
(* ends in a failure that is reported to the caller of startGame, and the  *)
(* game loop is never started.                                             *)
(***************************************************************************)
C18_MissingSaveIsReported ==
    failure.reason = "no save" =>
        /\ failure.outcome = "reported"
        /\ phase = "failed"
        /\ previous = Null

(***************************************************************************)
(* C19: a gameLoop invocation happens only after the config load and the   *)
(* graphics load have both completed without a rejection and the initial   *)
(* world has been registered (by createNewGame, directly or from the       *)
(* loaded save); while a startup load is pending no frame has run.         *)
(***************************************************************************)
\* startGameLoop has run
LoopStarted ==
    op = "gameLoop" \/ phase \in {"running", "halted"} \/ previous # Null

C19_LoopStartsAfterStartup ==
    /\ LoopStarted =>
           /\ pending = {}
           /\ failure.reason = "none"
           /\ "map" \in submitted
           /\ CountIn(gameObjects["unnamed"], "map") = 1
           /\ 1 \in Registered /\ 2 \in Registered
    /\ pending # {} => (previous = Null /\ op # "gameLoop")

\* the first frame of a debug start, over the world of the save
C19_Witness ==
    /\ debug
    /\ op = "gameLoop"
    /\ previous = StartTime + elapsed
    /\ CountIn(gameObjects["citys"], "city") = 1
    /\ pending = {}

(***************************************************************************)
(* C20: every addComponent call finds its component already pushed on the  *)
(* list its field name selects; no component is attached twice, and every  *)
(* component of an entity whose registration completed has been attached   *)
(* exactly once.                                                           *)
(***************************************************************************)
\* number of addComponent calls made on the component
TimesAttached(c) ==
    Cardinality({i \in DOMAIN attached : attached[i].component = c})

\* addNewGameObject stored the entity in a bucket
InBucket(n) == \E b \in objectBuckets : InSeq(n, gameObjects[b])

C20_PushedBeforeAttached ==
    /\ \A i \in DOMAIN attached :
           attached[i].listed /\ attached[i].component \in Registered
    /\ \A c \in Registered : TimesAttached(c) <= 1
    /\ \A n \in EntityNames :
           InBucket(n) =>
               \A k \in DOMAIN FieldsOf(n) : TimesAttached(FieldsOf(n)[k][2]) = 1

\* an entity was registered while the game runs, after the world
C20_Witness ==
    /\ op = "addNewGameObject" /\ ~raised
    /\ InBucket(arg)
    /\ Len(attached) >= 4
    /\ \A k \in DOMAIN FieldsOf(arg) : TimesAttached(FieldsOf(arg)[k][2]) = 1

(***************************************************************************)
(* C21: within one update pass the update calls are made list by list in   *)
(* the declared order of the pass's nameset (physicsComponents before      *)
(* informationComponents, renderComponents before menuComponents) and,     *)
(* within a list, in increasing index order of the list as the frame found *)
(* it; a component is never updated before one that precedes it.           *)
(***************************************************************************)
\* the place of the list of a call in the nameset of its pass
PlaceOf(call, ps) == indexOf(NamesetOf(ps[call.pass].kind), call.list)

C21_CallsInOrder ==
    \A i, j \in DOMAIN calls' :
        (i < j /\ calls'[i].pass = calls'[j].pass) =>
            LET a == calls'[i]
                b == calls'[j]
            IN  /\ PlaceOf(a, passes') >= 0
                /\ PlaceOf(a, passes') <= PlaceOf(b, passes')
                /\ a.list = b.list =>
                       /\ indexOf(pushed', a.component)
                              < indexOf(pushed', b.component)
                       /\ phase = "running" =>
                              /\ indexOf(components[a.list], a.component) >= 0
                              /\ indexOf(components[a.list], a.component)
                                     < indexOf(components[b.list], b.component)

C21_DeterministicVisitation == [][C21_CallsInOrder]_vars

\* a simulation pass called two components of the first list, one of them
\* deactivated, and then a component of the second list
C21_Witness ==
    /\ op = "gameLoop"
    /\ \E i, j, k \in DOMAIN calls :
           /\ i < j /\ j < k
           /\ calls[i].list = "physicsComponents"
           /\ calls[i].result = "false"
           /\ calls[j].list = "physicsComponents"
           /\ calls[k].list = "informationComponents"
           /\ calls[i].pass = calls[k].pass

(***************************************************************************)
(* C22: an entity whose registration completed is held exactly once by     *)
(* exactly one bucket of this.gameObjects, the one its objectType selects   *)
(* when addNewGameObject runs ("unnamed" when it selects none), and only    *)
(* with all its components pushed and attached; no operation removes an    *)
(* entity from a bucket, and frames and menu operations leave the buckets   *)
(* as they are.                                                            *)
(***************************************************************************)
\* the bucket lines 353-357 select for the entity
ExpectedBucket(n) ==
    IF UnknownType(n) THEN "unnamed" ELSE Entities[n].objectType \o "s"

IsPrefix(s, t) == Len(s) <= Len(t) /\ SubSeq(t, 1, Len(s)) = s

C22_Membership ==
    \A n \in EntityNames :
        /\ InBucket(n) =>
               /\ CountIn(gameObjects[ExpectedBucket(n)], n) = 1
               /\ \A b \in objectBuckets \ {ExpectedBucket(n)} :
                      CountIn(gameObjects[b], n) = 0
               /\ \A k \in DOMAIN FieldsOf(n) :
                      /\ FieldsOf(n)[k][2] \in Registered
                      /\ Attached(FieldsOf(n)[k][2])
        /\ ~InBucket(n) =>
               \E k \in DOMAIN FieldsOf(n) : ~Attached(FieldsOf(n)[k][2])

C22_BucketsStep ==
    /\ C22_Membership'
    /\ \A b \in objectBuckets : IsPrefix(gameObjects[b], gameObjects'[b])
    /\ (phase = "running" /\ op' \in {"gameLoop", "addMenu", "removeMenu"})
           => gameObjects' = gameObjects

C22_BucketChosenOnce == [][C22_BucketsStep]_vars

\* a frame and a menu operation ran over a world with an entity in a
\* declared bucket and one in "unnamed"
C22_Witness ==
    /\ op = "removeMenu"
    /\ previous > StartTime
    /\ gameObjects["citys"] = <<"city">>
    /\ gameObjects["unnamed"] = <<"map">>
    /\ "band" \in submitted /\ ~InBucket("band")

(***************************************************************************)
(* C23: with elapsed >= 0 and speed > 0 the while loop of gameLoop ends    *)
(* within the invocation: an invocation that has reached the loop goes on  *)
(* to end, rescheduled after its presentation pass or halted by a throwing *)
(* update, and an invocation that was rescheduled ran the loop body at     *)
(* most once and ended with its presentation pass.                         *)
(***************************************************************************)
\* the invocation is over: the next frame is requested, or an update threw
FrameOver == phase \in {"running", "halted"}

C23_FrameEndsWithRender ==
    (phase = "running" /\ op = "gameLoop") =>
        /\ ~raised
        /\ passes # <<>>
        /\ IsPresentation(passes[Len(passes)])
        /\ Len(SimulationPasses) <= 1
        /\ lag < speed

C23_CatchUpTerminates ==
    /\ (phase = "catchUp") ~> FrameOver
    /\ []C23_FrameEndsWithRender

\* a frame that owed two ticks left the loop, rendered and was rescheduled
C23_Witness ==
    /\ phase = "running" /\ op = "gameLoop"
    /\ speed > 0
    /\ elapsed = 4500
    /\ Len(SimulationPasses) = 1
    /\ SimulationPasses[1].delta = 2
    /\ IsPresentation(passes[Len(passes)])

====
